---- MODULE Spec2Model ----
(***************************************************************************)
(* otc_rds: the Ansible module of lib/ansible/modules/cloud/otc/otc_rds.py *)
(* as a state machine.  One run of main() is a sequence of blocking REST   *)
(* calls (_api_call); a step of the model is the code between two calls:   *)
(* it consumes the answer of the call in flight and either ends the run    *)
(* (exit_json / fail_json) or issues the next call.                        *)
(*                                                                         *)
(* Strings the code takes apart or builds (name, datastore type, flavor,   *)
(* specCode) are sequences of characters; strings it only compares are     *)
(* TLA+ strings.  Exceptions raised inside the libraries (requests, shade) *)
(* are outside the model; the API's "Wait response timeout." answer, which *)
(* the code tests for, is in it.                                           *)
(***************************************************************************)
EXTENDS Integers, Sequences, FiniteSets, TLC

VARIABLES
    params,     \* module.params: the desired spec
    remote,     \* what the RDS API answers during this run
    pc,         \* position of the run
    ret,        \* caller of get_rds_flavor_id waiting for its result
    calls,      \* every REST call issued by this run, in order
    inflight,   \* indices (into calls) of calls not yet answered
    instance,   \* get_instance(): <<>> for None, <<inst>> when found
    resp,       \* update(): resp['instance'], <<>> before it is fetched
    db_id,      \* get_db_id() of the lookup in progress
    flavor_id,  \* last result of get_rds_flavor_id()
    updates,    \* update(): the dict returned by _get_updates
    todo,       \* update(): keys of updates.items() not yet processed
    results,    \* update(): keys of the results dict
    outcome,    \* how the run ended: exit_json / fail_json and their payload
    run,        \* number of the current invocation of main()
    prevCalls,  \* the calls of the previous invocation
    prevOutcome \* how the previous invocation ended

vars == <<params, remote, pc, ret, calls, inflight, instance, resp, db_id,
          flavor_id, updates, todo, results, outcome, run, prevCalls,
          prevOutcome>>

\* ------------------------------------------------------------- bounds
MaxInstances == 2
MaxSize == 2
MaxRuns == 2

\* ------------------------------------------------------------ strings
None == "None"

Range(s) == {s[i] : i \in 1..Len(s)}

startswith(s, prefix) ==
    /\ Len(prefix) <= Len(s)
    /\ SubSeq(s, 1, Len(prefix)) = prefix

lower_char(c) ==
    CASE c = "M" -> "m"
      [] c = "S" -> "s"
      [] c = "Q" -> "q"
      [] c = "L" -> "l"
      [] OTHER -> c

lower(s) == [i \in 1..Len(s) |-> lower_char(s[i])]

upper(method) ==
    CASE method = "get" -> "GET"
      [] method = "post" -> "POST"
      [] method = "delete" -> "DELETE"

\* ------------------------------------------------------------- inputs
MySQL == <<"M", "y", "S", "Q", "L">>
db1 == <<"d", "b", "1">>
s1 == <<"s", "1">>
s2 == <<"s", "2">>

\* names the provider may report: two that start with "db1-MySQL", two that do not
InstanceNames ==
    { db1 \o <<"-">> \o MySQL \o <<"-", "x", "y", "z">>,
      db1 \o <<"-">> \o MySQL,
      db1,
      <<"d", "b", "2", "-">> \o MySQL \o <<"-", "x", "y", "z">> }

InstanceLists ==
    UNION { [1..n -> InstanceNames] : n \in 0..MaxInstances }

\* GET instances: the id of an instance is its place in the listing
Listing(names) == [i \in 1..Len(names) |-> [id |-> i, name |-> names[i]]]

rds_mysql(f) == <<"r", "d", "s", ".">> \o lower(MySQL) \o <<".">> \o f

FlavorLists ==
    { << [specCode |-> rds_mysql(s1), id |-> "F1"],
         [specCode |-> rds_mysql(s2), id |-> "F2"] >>,
      << [specCode |-> rds_mysql(s1), id |-> "F1"] >> }

DataStoreLists ==
    { << [name |-> "5.6.30", id |-> "D1"] >>,
      << >> }

VolumeTypes == {"COMMON", "ULTRAHIGH"}
Vpcs == {"vpc-1", "vpc-2"}

Params ==
    [ state : {"present", "absent"},
      name : {db1},
      datastore : {[type |-> MySQL, version |-> "5.6.30"]},
      flavor : {s1, s2},
      volume : [type : {"COMMON"}, size : 1..MaxSize],
      vpc : {"vpc-1"} ]

\* GET instances/{id} without its name: flavor, volume, and possibly vpc.  vpc
\* stands for the keys of module.params the code has no rule for (vpc, nics,
\* securityGroup, region, ...): all of them take the same branch of update()
Details ==
    [ flavor : [id : {"F1", "F2"}],
      volume : [type : VolumeTypes, size : 1..MaxSize],
      vpc : Vpcs \cup {None} ]

Remotes ==
    [ instances : {Listing(l) : l \in InstanceLists},
      detail : Details,
      dataStores : DataStoreLists,
      flavors : FlavorLists ]

\* resp['instance'] for the instance found; a vpc of None is a missing key
InstanceDetail(inst) ==
    LET d == remote.detail
        base == [id |-> inst.id, name |-> inst.name,
                 flavor |-> d.flavor, volume |-> d.volume]
    IN IF d.vpc = None THEN base
       ELSE [k \in DOMAIN base \cup {"vpc"} |->
                IF k = "vpc" THEN d.vpc ELSE base[k]]

\* ------------------------------------------------------- pure helpers
\* instance[key] != value; a flavor is a dict remotely and a string in params
py_ne(key, a, b) == IF key = "flavor" THEN TRUE ELSE a # b

name_prefix == params.name \o <<"-">> \o params.datastore.type

\* a for loop that returns at the first hit: the least index of hits
first(hits) == CHOOSE i \in hits : \A j \in hits : i <= j

get_instance ==
    LET list == remote.instances
        hits == {i \in 1..Len(list) : startswith(list[i].name, name_prefix)}
    IN IF hits = {} THEN <<>> ELSE <<list[first(hits)]>>

get_db_id ==
    LET list == remote.dataStores
        hits == {i \in 1..Len(list) :
                    list[i].name = params.datastore.version}
    IN IF hits = {} THEN None ELSE list[first(hits)].id

get_rds_flavor_id ==
    LET list == remote.flavors
        code == <<"r", "d", "s", ".">> \o lower(params.datastore.type)
                    \o <<".">> \o params.flavor
        hits == {i \in 1..Len(list) : list[i].specCode = code}
    IN IF hits = {} THEN None ELSE list[first(hits)].id

\* does _get_updates reach the call of get_rds_flavor_id()
needs_flavor(inst) ==
    /\ "flavor" \in DOMAIN params
    /\ "flavor" \in DOMAIN inst
    /\ py_ne("flavor", inst["flavor"], params["flavor"])

\* skip_update comparing the raw flavor only: the resolved id is not consulted
skip_update_no_flavor(key, inst, fid) ==
    \/ /\ key = "name"
       /\ startswith(inst[key], name_prefix)
    \/ /\ key = "volume"
       /\ params[key].type = inst[key].type
       /\ params[key].size = inst[key].size

\* skip_update wanting the remote name to be the prefix itself
skip_update_exact_name(key, inst, fid) ==
    \/ /\ key = "name"
       /\ inst[key] = name_prefix
    \/ /\ key = "flavor"
       /\ fid = inst[key].id
    \/ /\ key = "volume"
       /\ params[key].type = inst[key].type
       /\ params[key].size = inst[key].size

skip_update(key, inst, fid) ==
    \/ /\ key = "name"
       /\ startswith(inst[key], name_prefix)
    \/ /\ key = "flavor"
       /\ fid = inst[key].id
    \/ /\ key = "volume"
       /\ params[key].type = inst[key].type
       /\ params[key].size = inst[key].size

_get_updates(inst, fid) ==
    LET keys == {key \in DOMAIN params :
                    /\ key \in DOMAIN inst
                    /\ py_ne(key, inst[key], params[key])
                    /\ ~skip_update(key, inst, fid)}
    IN [key \in keys |-> [old |-> inst[key], new |-> params[key]]]

\* the orders in which updates.items() may hand out the keys of a dict
items(d) ==
    LET n == Cardinality(DOMAIN d)
    IN {s \in [1..n -> DOMAIN d] : \A i, j \in 1..n : i # j => s[i] # s[j]}

\* --------------------------------------------------------- REST calls
Call(method, uri, json, query) ==
    [method |-> method, uri |-> uri, json |-> json, params |-> query]

NoJson == [none |-> TRUE]

\* _api_call, seen from the code around it: when answered, the step consumes
\* the answer of the last call issued; issue holds the call it sends next
\* (<<>> when it sends none)
_api_call(answered, issue) ==
    /\ answered => Len(calls) \in inflight
    /\ calls' = calls \o issue
    /\ inflight' = (IF answered THEN inflight \ {Len(calls)} ELSE inflight)
                        \cup {Len(calls) + i : i \in 1..Len(issue)}

Running == [kind |-> "running", changed |-> FALSE, msg |-> <<>>,
            args |-> <<>>, changes |-> <<>>]

exit_json(changed) ==
    /\ outcome' = [kind |-> "exit_json", changed |-> changed, msg |-> <<>>,
                   args |-> <<>>, changes |-> <<>>]
    /\ pc' = "done"

fail_json(msg, args, changes) ==
    /\ outcome' = [kind |-> "fail_json", changed |-> FALSE, msg |-> msg,
                   args |-> args, changes |-> changes]
    /\ pc' = "done"

MsgTimeout == <<"Internal", "RDS", "API", "Timeout:", "{}", "{}">>
MsgFlavor == <<"Could", "not", "find", "flavor", "{}">>
MsgVolumeType == <<"only", "volume", "size", "can", "be", "changed", "on",
                   "the", "fly,", "not", "volume", "type">>
MsgImmutable == <<"only", "volume", "size", "and", "flavor", "can", "be",
                  "changed", "on", "the", "fly">>

\* --------------------------------------------------------------- Init
Init ==
    /\ params \in Params
    /\ remote \in Remotes
    /\ pc = "main"
    /\ ret = None
    /\ calls = <<>>
    /\ inflight = {}
    /\ instance = <<>>
    /\ resp = <<>>
    /\ db_id = None
    /\ flavor_id = None
    /\ updates = <<>>
    /\ todo = <<>>
    /\ results = {}
    /\ outcome = Running
    /\ run = 1
    /\ prevCalls = <<>>
    /\ prevOutcome = Running

\* ------------------------------------------------------------ actions
\* the answer of the call in flight is {"message": "Wait response timeout."}
ApiTimeout ==
    /\ pc # "done"
    /\ _api_call(TRUE, <<>>)
    /\ LET c == calls[Len(calls)]
       IN fail_json(MsgTimeout, <<upper(c.method), c.uri>>, <<>>)
    /\ UNCHANGED <<params, remote, ret, instance, resp, db_id, flavor_id,
                   updates, todo, results, run, prevCalls,
                   prevOutcome>>

GetInstances == Call("get", <<"instances">>, NoJson, NoJson)

GetVersions ==
    Call("get", <<"datastores", params.datastore.type, "versions">>,
         NoJson, NoJson)

\* main, state == 'present': update() starts with get_instance()
MainPresent ==
    /\ pc = "main"
    /\ params.state = "present"
    /\ _api_call(FALSE, <<GetInstances>>)
    /\ pc' = "update_get_instance"
    /\ UNCHANGED <<params, remote, ret, instance, resp, db_id, flavor_id,
                   updates, todo, results, outcome, run, prevCalls,
                   prevOutcome>>

\* main, state == 'absent': delete() starts with get_instance()
MainAbsent ==
    /\ pc = "main"
    /\ params.state = "absent"
    /\ _api_call(FALSE, <<GetInstances>>)
    /\ pc' = "delete_get_instance"
    /\ UNCHANGED <<params, remote, ret, instance, resp, db_id, flavor_id,
                   updates, todo, results, outcome, run, prevCalls,
                   prevOutcome>>

\* update(): no instance, return None; main goes on to create(), whose
\* get_rds_flavor_id() starts with get_db_id()
UpdateNotFound ==
    /\ pc = "update_get_instance"
    /\ get_instance = <<>>
    /\ _api_call(TRUE, <<GetVersions>>)
    /\ instance' = <<>>
    /\ ret' = "create"
    /\ pc' = "get_db_id"
    /\ UNCHANGED <<params, remote, resp, db_id, flavor_id, updates, todo,
                   results, outcome, run, prevCalls,
                   prevOutcome>>

\* update(): an instance is found, fetch instances/{id}
UpdateFound ==
    /\ pc = "update_get_instance"
    /\ get_instance # <<>>
    /\ _api_call(TRUE, <<Call("get", <<"instances", get_instance[1].id>>,
                              NoJson, NoJson)>>)
    /\ instance' = get_instance
    /\ pc' = "update_get_detail"
    /\ UNCHANGED <<params, remote, ret, resp, db_id, flavor_id, updates,
                   todo, results, outcome, run, prevCalls,
                   prevOutcome>>

\* update(): resp['instance'] arrives; _get_updates runs up to its call of
\* get_rds_flavor_id(), if it makes one
UpdateDetail ==
    /\ pc = "update_get_detail"
    /\ LET inst == InstanceDetail(instance[1])
       IN /\ resp' = <<inst>>
          /\ IF needs_flavor(inst)
             THEN /\ _api_call(TRUE, <<GetVersions>>)
                  /\ ret' = "_get_updates"
                  /\ pc' = "get_db_id"
             ELSE /\ _api_call(TRUE, <<>>)
                  /\ ret' = ret
                  /\ pc' = "update_diff"
    /\ UNCHANGED <<params, remote, instance, db_id, flavor_id, updates,
                   todo, results, outcome, run, prevCalls,
                   prevOutcome>>

\* get_rds_flavor_id(): get_db_id() has its answer, ask for the flavors
GetDbId ==
    /\ pc = "get_db_id"
    /\ _api_call(TRUE, <<Call("get", <<"flavors">>, NoJson,
                              [dbId |-> get_db_id])>>)
    /\ db_id' = get_db_id
    /\ pc' = "get_flavors"
    /\ UNCHANGED <<params, remote, ret, instance, resp, flavor_id, updates,
                   todo, results, outcome, run, prevCalls,
                   prevOutcome>>

\* get_rds_flavor_id() returns into _get_updates
FlavorForUpdates ==
    /\ pc = "get_flavors"
    /\ ret = "_get_updates"
    /\ _api_call(TRUE, <<>>)
    /\ flavor_id' = get_rds_flavor_id
    /\ pc' = "update_diff"
    /\ UNCHANGED <<params, remote, ret, instance, resp, db_id, updates,
                   todo, results, outcome, run, prevCalls,
                   prevOutcome>>

\* update(): the rest of _get_updates, then the test of its result
UpdateDiff ==
    /\ pc = "update_diff"
    /\ LET u == _get_updates(resp[1], flavor_id)
       IN /\ updates' = u
          /\ IF DOMAIN u = {}
             THEN /\ exit_json(FALSE)
                  /\ todo' = todo
             ELSE /\ todo' \in items(u)
                  /\ pc' = "update_loop"
                  /\ outcome' = outcome
    /\ UNCHANGED <<params, remote, ret, calls, inflight, instance, resp,
                   db_id, flavor_id, results, run, prevCalls,
                   prevOutcome>>

ResizeVolume(instance_id, size) ==
    Call("post", <<"instances", instance_id, "action">>,
         [resize |-> [volume |-> [size |-> size]]], NoJson)

ResizeFlavor(instance_id, fid) ==
    Call("post", <<"instances", instance_id, "action">>,
         [resize |-> [flavorRef |-> fid]], NoJson)

\* LoopVolume handing changes['old']['size'] to update_volume_size
LoopVolume_old_size ==
    /\ pc = "update_loop"
    /\ todo # <<>>
    /\ Head(todo) = "volume"
    /\ LET changes == updates[Head(todo)]
       IN IF changes.old.type # changes.new.type
          THEN /\ fail_json(MsgVolumeType, <<>>, <<changes>>)
               /\ UNCHANGED <<calls, inflight>>
          ELSE /\ _api_call(FALSE, <<ResizeVolume(instance[1].id,
                                                  changes.old.size)>>)
               /\ pc' = "update_volume_size"
               /\ outcome' = outcome
    /\ UNCHANGED <<params, remote, ret, instance, resp, db_id, flavor_id,
                   updates, todo, results, run, prevCalls,
                   prevOutcome>>

\* update(): for prop, changes in updates.items(), prop == 'volume'
LoopVolume ==
    /\ pc = "update_loop"
    /\ todo # <<>>
    /\ Head(todo) = "volume"
    /\ LET changes == updates[Head(todo)]
       IN IF changes.old.type # changes.new.type
          THEN /\ fail_json(MsgVolumeType, <<>>, <<changes>>)
               /\ UNCHANGED <<calls, inflight>>
          ELSE /\ _api_call(FALSE, <<ResizeVolume(instance[1].id,
                                                  changes.new.size)>>)
               /\ pc' = "update_volume_size"
               /\ outcome' = outcome
    /\ UNCHANGED <<params, remote, ret, instance, resp, db_id, flavor_id,
                   updates, todo, results, run, prevCalls,
                   prevOutcome>>

\* update_volume_size() returns: results['volume'] = resp
VolumeResized ==
    /\ pc = "update_volume_size"
    /\ _api_call(TRUE, <<>>)
    /\ results' = results \cup {"volume"}
    /\ todo' = Tail(todo)
    /\ pc' = "update_loop"
    /\ UNCHANGED <<params, remote, ret, instance, resp, db_id, flavor_id,
                   updates, outcome, run, prevCalls,
                   prevOutcome>>

\* update(): prop == 'flavor'; update_flavor() first looks the flavor up
LoopFlavor ==
    /\ pc = "update_loop"
    /\ todo # <<>>
    /\ Head(todo) = "flavor"
    /\ _api_call(FALSE, <<GetVersions>>)
    /\ ret' = "update_flavor"
    /\ pc' = "get_db_id"
    /\ UNCHANGED <<params, remote, instance, resp, db_id, flavor_id,
                   updates, todo, results, outcome, run, prevCalls,
                   prevOutcome>>

\* get_rds_flavor_id() returns into update_flavor, which posts the resize
FlavorForResize ==
    /\ pc = "get_flavors"
    /\ ret = "update_flavor"
    /\ _api_call(TRUE, <<ResizeFlavor(instance[1].id, get_rds_flavor_id)>>)
    /\ flavor_id' = get_rds_flavor_id
    /\ pc' = "update_flavor"
    /\ UNCHANGED <<params, remote, ret, instance, resp, db_id, updates,
                   todo, results, outcome, run, prevCalls,
                   prevOutcome>>

\* update_flavor() returns: results['flavor'] = resp
FlavorResized ==
    /\ pc = "update_flavor"
    /\ _api_call(TRUE, <<>>)
    /\ results' = results \cup {"flavor"}
    /\ todo' = Tail(todo)
    /\ pc' = "update_loop"
    /\ UNCHANGED <<params, remote, ret, instance, resp, db_id, flavor_id,
                   updates, outcome, run, prevCalls,
                   prevOutcome>>

\* update(): any other prop
LoopOther ==
    /\ pc = "update_loop"
    /\ todo # <<>>
    /\ Head(todo) \notin {"volume", "flavor"}
    /\ fail_json(MsgImmutable, <<>>, <<>>)
    /\ UNCHANGED <<params, remote, ret, calls, inflight, instance, resp,
                   db_id, flavor_id, updates, todo, results, run, prevCalls,
                   prevOutcome>>

\* LoopEnd with update() returning to main instead of exiting: create() runs
LoopEnd_returns ==
    /\ pc = "update_loop"
    /\ todo = <<>>
    /\ _api_call(FALSE, <<GetVersions>>)
    /\ ret' = "create"
    /\ pc' = "get_db_id"
    /\ UNCHANGED <<params, remote, instance, resp, db_id, flavor_id,
                   updates, todo, results, outcome, run, prevCalls,
                   prevOutcome>>

\* update(): the loop is over
LoopEnd ==
    /\ pc = "update_loop"
    /\ todo = <<>>
    /\ exit_json(TRUE)
    /\ UNCHANGED <<params, remote, ret, calls, inflight, instance, resp,
                   db_id, flavor_id, updates, todo, results, run, prevCalls,
                   prevOutcome>>

\* api_body with the datastore id in the place of the flavor id
api_body_db_id(fid) ==
    [name |-> params.name, datastore |-> params.datastore,
     flavorRef |-> db_id, volume |-> params.volume, vpc |-> params.vpc]

api_body(fid) ==
    [name |-> params.name, datastore |-> params.datastore,
     flavorRef |-> fid, volume |-> params.volume, vpc |-> params.vpc]

\* get_rds_flavor_id() returns into create()
FlavorForCreate ==
    /\ pc = "get_flavors"
    /\ ret = "create"
    /\ flavor_id' = get_rds_flavor_id
    /\ IF get_rds_flavor_id = None
       THEN /\ _api_call(TRUE, <<>>)
            /\ fail_json(MsgFlavor, <<params.flavor>>, <<>>)
       ELSE /\ _api_call(TRUE, <<Call("post", <<"instances">>,
                             [instance |-> api_body(get_rds_flavor_id)],
                             NoJson)>>)
            /\ pc' = "create_post"
            /\ outcome' = outcome
    /\ UNCHANGED <<params, remote, ret, instance, resp, db_id, updates,
                   todo, results, run, prevCalls,
                   prevOutcome>>

\* create(): the POST has its answer
Created ==
    /\ pc = "create_post"
    /\ _api_call(TRUE, <<>>)
    /\ exit_json(TRUE)
    /\ UNCHANGED <<params, remote, ret, instance, resp, db_id, flavor_id,
                   updates, todo, results, run, prevCalls,
                   prevOutcome>>

\* delete(): no instance
DeleteNotFound ==
    /\ pc = "delete_get_instance"
    /\ get_instance = <<>>
    /\ _api_call(TRUE, <<>>)
    /\ instance' = <<>>
    /\ exit_json(FALSE)
    /\ UNCHANGED <<params, remote, ret, resp, db_id, flavor_id, updates,
                   todo, results, run, prevCalls,
                   prevOutcome>>

\* delete(): DELETE instances/{id}
DeleteFound ==
    /\ pc = "delete_get_instance"
    /\ get_instance # <<>>
    /\ _api_call(TRUE, <<Call("delete", <<"instances", get_instance[1].id>>,
                              NoJson, NoJson)>>)
    /\ instance' = get_instance
    /\ pc' = "delete_call"
    /\ UNCHANGED <<params, remote, ret, resp, db_id, flavor_id, updates,
                   todo, results, outcome, run, prevCalls,
                   prevOutcome>>

\* Deleted reporting changed=False
Deleted_unchanged ==
    /\ pc = "delete_call"
    /\ _api_call(TRUE, <<>>)
    /\ exit_json(FALSE)
    /\ UNCHANGED <<params, remote, ret, instance, resp, db_id, flavor_id,
                   updates, todo, results, run, prevCalls,
                   prevOutcome>>

\* delete(): the DELETE has its answer
Deleted ==
    /\ pc = "delete_call"
    /\ _api_call(TRUE, <<>>)
    /\ exit_json(TRUE)
    /\ UNCHANGED <<params, remote, ret, instance, resp, db_id, flavor_id,
                   updates, todo, results, run, prevCalls,
                   prevOutcome>>

\* the playbook runs the task again: main() with the same arguments, the API
\* giving the same answers
Rerun ==
    /\ pc = "done"
    /\ run < MaxRuns
    /\ run' = run + 1
    /\ prevCalls' = calls
    /\ prevOutcome' = outcome
    /\ pc' = "main"
    /\ ret' = None
    /\ calls' = <<>>
    /\ inflight' = {}
    /\ instance' = <<>>
    /\ resp' = <<>>
    /\ db_id' = None
    /\ flavor_id' = None
    /\ updates' = <<>>
    /\ todo' = <<>>
    /\ results' = {}
    /\ outcome' = Running
    /\ UNCHANGED <<params, remote>>

Next ==
    \/ ApiTimeout
    \/ MainPresent
    \/ MainAbsent
    \/ UpdateNotFound
    \/ UpdateFound
    \/ UpdateDetail
    \/ GetDbId
    \/ FlavorForUpdates
    \/ UpdateDiff
    \/ LoopVolume
    \/ VolumeResized
    \/ LoopFlavor
    \/ FlavorForResize
    \/ FlavorResized
    \/ LoopOther
    \/ LoopEnd
    \/ FlavorForCreate
    \/ Created
    \/ DeleteNotFound
    \/ DeleteFound
    \/ Deleted

Spec == Init /\ [][Next]_vars

\* runs of the task one after the other
NextRerun ==
    \/ Next
    \/ Rerun

SpecRerun == Init /\ [][NextRerun]_vars

\* ------------------------------------------------- vocabulary of the claims
Done == pc = "done"
Present == params.state = "present"
Absent == params.state = "absent"

\* call i of this run was answered, and not by "Wait response timeout."
Answered(i) ==
    /\ i \in 1..Len(calls)
    /\ i \notin inflight
    /\ ~(i = Len(calls) /\ outcome.msg = MsgTimeout)

\* the listing of the instances was read
Listed == Answered(1)

\* instances/{id} of the instance found was read
Fetched == resp # <<>>

\* a flavor lookup of this run came back
FlavorLookedUp ==
    \E i \in 1..Len(calls) :
        /\ calls[i].method = "get"
        /\ calls[i].uri = <<"flavors">>
        /\ Answered(i)

IsCreate(c) == c.method = "post" /\ Len(c.uri) = 1
IsResize(c) == c.method = "post" /\ Len(c.uri) = 3
IsVolumeResize(c) == IsResize(c) /\ "volume" \in DOMAIN c.json.resize
IsFlavorResize(c) == IsResize(c) /\ "flavorRef" \in DOMAIN c.json.resize
IsDelete(c) == c.method = "delete"
IsMutation(c) == c.method \in {"post", "delete"}

Creates(log) == {i \in 1..Len(log) : IsCreate(log[i])}
Resizes(log) == {i \in 1..Len(log) : IsResize(log[i])}
VolumeResizes(log) == {i \in 1..Len(log) : IsVolumeResize(log[i])}
FlavorResizes(log) == {i \in 1..Len(log) : IsFlavorResize(log[i])}
Deletes(log) == {i \in 1..Len(log) : IsDelete(log[i])}
Mutations(log) == {i \in 1..Len(log) : IsMutation(log[i])}

\* s is p followed by anything
PrefixOf(p, s) ==
    /\ Len(p) <= Len(s)
    /\ \A i \in 1..Len(p) : s[i] = p[i]

DesiredPrefix == params.name \o <<"-">> \o params.datastore.type

\* the fields other than name, flavor and volume that both sides have
OtherKeys == (DOMAIN params \cap DOMAIN resp[1]) \ {"name", "flavor", "volume"}
OtherMismatches == {key \in OtherKeys : resp[1][key] # params[key]}

FlavorResolved == FlavorLookedUp /\ get_rds_flavor_id # None
FlavorSame == FlavorResolved /\ get_rds_flavor_id = resp[1].flavor.id
FlavorDiffers == FlavorResolved /\ get_rds_flavor_id # resp[1].flavor.id

\* no call of this run was answered by "Wait response timeout."
NoTimeout == outcome.msg # MsgTimeout

NoOp == outcome.kind = "exit_json" /\ ~outcome.changed /\ Mutations(calls) = {}
Fatal == outcome.kind = "fail_json"

\* ------------------------------------------------------------------- C1
\* C1 (as claimed): a state=present run against an existing instance whose
\* volume type differs from the desired one ends in a fatal failure, and the
\* run has issued no create, resize or delete call, whatever else differs and
\* in whatever order updates.items() hands out the fields.  Stated for the
\* runs in which no call is answered by a timeout.
C1_VolumeTypeNeverMutates ==
    (Done /\ Present /\ Fetched /\ NoTimeout
        /\ resp[1].volume.type # params.volume.type)
    => (Fatal /\ Mutations(calls) = {})

\* ------------------------------------------------------------------- C2
\* C2 (as claimed): a state=present run whose flavor lookup finds no flavor
\* for the desired flavor string ends in the fatal "Could not find flavor"
\* failure carrying that string, and issues no create, resize or delete call,
\* on the create path and on the update path alike.  Stated for the runs in
\* which no call is answered by a timeout and, on the update path, nothing
\* but the flavor differs.
C2_FlavorNotFoundIsFatal ==
    (Done /\ Present /\ NoTimeout
        /\ FlavorLookedUp /\ get_rds_flavor_id = None
        /\ (Fetched => (resp[1].volume = params.volume
                            /\ OtherMismatches = {})))
    => /\ Fatal
       /\ outcome.msg = MsgFlavor
       /\ outcome.args = <<params.flavor>>
       /\ Mutations(calls) = {}

\* ------------------------------------------------------------------- C3
\* C3 (as claimed): a state=present run against an existing instance with a
\* mismatch in a field other than volume size and flavor ends in a fatal
\* failure that names the offending field and gives its old (remote) and new
\* (desired) values.  Stated for the runs in which no call is answered by a
\* timeout.
C3_ImmutableMismatchNamed ==
    (Done /\ Present /\ Fetched /\ NoTimeout /\ OtherMismatches # {})
    => /\ Fatal
       /\ \E key \in OtherMismatches :
            /\ key \in Range(outcome.msg)
            /\ outcome.changes
                 = <<[old |-> resp[1][key], new |-> params[key]]>>

\* ------------------------------------------------------------------- C4
C4_Matches ==
    /\ Done /\ Present /\ Fetched
    /\ resp[1].volume.size = params.volume.size
    /\ resp[1].volume.type = params.volume.type
    /\ FlavorSame
    /\ PrefixOf(DesiredPrefix, resp[1].name)

\* C4 (as claimed): on a state=present run against an existing instance, if
\* volume size and type are the desired ones, the desired flavor resolves to
\* the remote flavor id and the name matches under the prefix rule, the run
\* reports changed=False and issues no create, resize or delete call.
C4_Original == C4_Matches => NoOp

\* C4 (amended): the same, provided also that every other field the desired
\* spec and the remote instance both have (vpc, ...) holds the desired value.
C4_NoOpWhenAllMatch == (C4_Matches /\ OtherMismatches = {}) => NoOp

C4_Witness == C4_Matches /\ OtherMismatches = {} /\ NoOp

\* ------------------------------------------------------------------- C5
C5_OnlySizeDiffers ==
    /\ Done /\ Present /\ Fetched
    /\ resp[1].volume.size # params.volume.size
    /\ resp[1].volume.type = params.volume.type
    /\ FlavorSame
    /\ PrefixOf(DesiredPrefix, resp[1].name)
    /\ OtherMismatches = {}

\* C5: on a state=present run against an existing instance where only the
\* volume size differs, exactly one resize call is issued: a volume resize
\* posted to the action URI of the instance found, carrying the desired size
\* (larger or smaller than the remote one); no flavor resize, create or
\* delete is issued.
C5_OneVolumeResize ==
    C5_OnlySizeDiffers =>
        /\ Cardinality(Resizes(calls)) = 1
        /\ \A i \in Resizes(calls) :
            /\ calls[i].uri = <<"instances", instance[1].id, "action">>
            /\ calls[i].json
                 = [resize |-> [volume |-> [size |-> params.volume.size]]]
        /\ Mutations(calls) = Resizes(calls)

\* a shrinking resize that went through
C5_Witness ==
    /\ C5_OnlySizeDiffers
    /\ params.volume.size < resp[1].volume.size
    /\ outcome.kind = "exit_json" /\ outcome.changed
    /\ instance[1].id > 1

\* ------------------------------------------------------------------- C6
C6_NotFound == Done /\ Present /\ Listed /\ instance = <<>>
    /\ \A i \in 1..Len(remote.instances) :
            ~PrefixOf(DesiredPrefix, remote.instances[i].name)

C6_Create(fid) ==
    /\ Cardinality(Creates(calls)) = 1
    /\ \A i \in Creates(calls) :
        /\ calls[i].uri = <<"instances">>
        /\ calls[i].json.instance.name = params.name
        /\ calls[i].json.instance.datastore = params.datastore
        /\ calls[i].json.instance.volume = params.volume
        /\ calls[i].json.instance.flavorRef = fid
    /\ Mutations(calls) = Creates(calls)

\* C6 (as claimed): whenever state=present and the instance lookup finds no
\* instance, exactly one create call carrying the desired name, datastore,
\* volume and the resolved flavor id is issued, and no resize or delete.
\* Stated for the runs in which no call is answered by a timeout.
C6_Original == (C6_NotFound /\ NoTimeout) => C6_Create(get_rds_flavor_id)

\* C6 (amended): the same, provided the flavor lookup comes back with an id
\* for the desired flavor.
C6_CreateWhenResolved ==
    (C6_NotFound /\ FlavorResolved) => C6_Create(get_rds_flavor_id)

C6_Witness ==
    /\ C6_NotFound /\ FlavorResolved
    /\ remote.instances # <<>>
    /\ outcome.kind = "exit_json" /\ outcome.changed

\* ------------------------------------------------------------------- C7
SomeNameMatches ==
    \E i \in 1..Len(remote.instances) :
        PrefixOf(DesiredPrefix, remote.instances[i].name)

C7_DeleteIffFound ==
    /\ (Absent /\ Deletes(calls) # {}) => (Listed /\ instance # <<>> /\ SomeNameMatches)
    /\ (Absent /\ Done /\ Listed /\ instance # <<>>) =>
            /\ Cardinality(Deletes(calls)) = 1
            /\ \A i \in Deletes(calls) :
                    calls[i].uri = <<"instances", instance[1].id>>
            /\ Mutations(calls) = Deletes(calls)
    /\ (Absent /\ Done /\ Listed /\ instance = <<>>) => (~SomeNameMatches /\ NoOp)

\* C7 (as claimed): on a state=absent run a DELETE is issued iff the lookup
\* finds an instance; when found, exactly one DELETE for its id is issued and
\* the run reports changed=True; when not, nothing is issued and the run
\* succeeds with changed=False.
C7_Original ==
    /\ C7_DeleteIffFound
    /\ (Absent /\ Done /\ Listed /\ instance # <<>>) =>
            (outcome.kind = "exit_json" /\ outcome.changed)

\* C7 (amended): the same, except that the run reports changed=True only when
\* the DELETE is answered; when the API answers it with "Wait response
\* timeout." the run fails, the DELETE having been issued.
C7_DeleteThenChanged ==
    /\ C7_DeleteIffFound
    /\ (Absent /\ Done /\ Listed /\ instance # <<>>) =>
            \/ outcome.kind = "exit_json" /\ outcome.changed
            \/ Fatal /\ outcome.msg = MsgTimeout
                     /\ IsDelete(calls[Len(calls)])

C7_Witness ==
    /\ Absent /\ Done /\ Listed /\ instance # <<>>
    /\ instance[1].id > 1
    /\ outcome.kind = "exit_json" /\ outcome.changed

\* ------------------------------------------------------------------- C8
\* C8: the instance taken as the existing one is found by prefix: the lookup
\* finds one exactly when some listed name starts with desired name, "-",
\* datastore type, and the one it finds (the first such in the listing) has
\* such a name; the difference between that name and the desired name is
\* never an entry of the diff and never what a run fails on.
C8_PrefixTolerantName ==
    /\ Listed =>
        /\ (instance # <<>>) <=> SomeNameMatches
        /\ instance # <<>> =>
            /\ remote.instances[instance[1].id] = instance[1]
            /\ PrefixOf(DesiredPrefix, instance[1].name)
            /\ \A i \in 1..(instance[1].id - 1) :
                    ~PrefixOf(DesiredPrefix, remote.instances[i].name)
    /\ "name" \notin DOMAIN updates
    /\ "name" \notin Range(todo)
    /\ (Done /\ Fetched /\ outcome.msg = MsgImmutable) => OtherMismatches # {}

\* a suffixed name, different from the desired one, ends in a no-op
C8_Witness ==
    /\ Done /\ Present /\ Fetched
    /\ resp[1].name # params.name
    /\ resp[1].name # DesiredPrefix
    /\ NoOp

\* ------------------------------------------------------------------- C9
C9_SizeAndFlavorDiffer ==
    /\ Done /\ Present /\ Fetched
    /\ resp[1].volume.size # params.volume.size
    /\ resp[1].volume.type = params.volume.type
    /\ FlavorDiffers
    /\ OtherMismatches = {}

\* C9 (as claimed): when volume size and flavor both differ and nothing else,
\* one resize call per field is issued for the same instance, no call is
\* issued while another is in flight, and a second run with the same desired
\* spec against the same remote state issues the same calls in the same
\* order.  Stated for runs in which no call is answered by a timeout.
C9_DeterministicResizes ==
    /\ Cardinality(inflight) <= 1
    /\ (C9_SizeAndFlavorDiffer /\ NoTimeout) =>
            /\ Cardinality(VolumeResizes(calls)) = 1
            /\ Cardinality(FlavorResizes(calls)) = 1
            /\ \A i \in Resizes(calls) : calls[i].uri[2] = instance[1].id
    /\ (C9_SizeAndFlavorDiffer /\ NoTimeout
            /\ run > 1 /\ prevOutcome.msg # MsgTimeout) =>
            calls = prevCalls

\* ------------------------------------------------------------------ C10
\* C10: in a state=present run, create is called only when the lookup of
\* update() found no instance; when it found one, the run ends inside
\* update() (no-op exit, resize exit or fatal failure); no run issues a resize
\* and a create, and none issues a DELETE.
C10_CreateOnlyWhenNotFound ==
    Present =>
        /\ Deletes(calls) = {}
        /\ ~(Resizes(calls) # {} /\ Creates(calls) # {})
        /\ (ret = "create" \/ Creates(calls) # {}) =>
                (Listed /\ instance = <<>> /\ ~SomeNameMatches)
        /\ (Listed /\ SomeNameMatches) =>
                /\ instance # <<>>
                /\ pc \in {"update_get_detail", "get_db_id", "get_flavors",
                           "update_diff", "update_loop",
                           "update_volume_size", "update_flavor", "done"}
                /\ ret # "create"
                /\ Done =>
                    \/ NoOp /\ DOMAIN updates = {}
                    \/ outcome.kind = "exit_json" /\ outcome.changed
                            /\ Resizes(calls) # {}
                    \/ Fatal

\* both fields resized, the run over, no create
C10_Witness ==
    /\ Present /\ Done /\ instance # <<>>
    /\ outcome.kind = "exit_json" /\ outcome.changed
    /\ Cardinality(Resizes(calls)) = 2
====
